---- MODULE Spec2Model ----
(***************************************************************************)
(* The node-payload loaders of three-loader: BinaryLoader                  *)
(* (src/src/loading/binary-loader.ts) and LasLazLoader                     *)
(* (src/src/loading/las-laz-loader.ts), their worker free list, and the    *)
(* node / tree state their decode completions write.                       *)
(*                                                                         *)
(* One loader serves one tree (pcoGeometry).  Every callback that the      *)
(* event loop runs to completion is one action: the synchronous part of    *)
(* load(), the continuation that runs when fetch / arrayBuffer / a LASFile *)
(* stage settles (with the promise reactions chained behind it, which run  *)
(* as microtasks before any other task), worker.onmessage, dispose().      *)
(* The promise chains that are still pending form a multiset: a chain that *)
(* has run its last reaction is garbage and leaves the state.  A worker    *)
(* answers a message it was sent with one message, at any later time; a    *)
(* worker that throws instead is not modelled (neither loader installs     *)
(* onerror, so no code of the loader would run).                           *)
(*                                                                         *)
(* Spec is the loader under an engine that starts loads and evicts at      *)
(* will; SpecRecall adds repeated load() calls, SpecVersions runs the      *)
(* fetch and the binary decode for every version, SpecLive is the          *)
(* BinaryLoader success path with fair scheduling of queued callbacks, and *)
(* SpecBudget is the engine's budget walk over the visible candidates.     *)
(* SpecOverlap is the BinaryLoader with load() called again on a node      *)
(* whose load is still in flight, and SpecViewer is the example            *)
(* application: the Load / Unload buttons of example/main.ts and the       *)
(* animation loop of example/viewer.ts.                                    *)
(***************************************************************************)
EXTENDS Integers, Sequences, FiniteSets, Bags, TLC

\* ---------------------------------------------------------------- bounds
MaxLoads == 2          \* load() calls that get past the early return, per run
SchemaByteSize == 4    \* pointAttributes.byteSize of the tree
MaxCands == 3          \* visible candidate nodes of one traversal pass
MaxPoints == 3         \* numPoints of a candidate node
MaxBudget == 6         \* the point budget
MaxClicks == 2         \* Load clicks that start a viewer.load(), per run
MaxFrames == 3         \* animation frames (the time passed to Viewer.loop)

Nodes == {"r", "r0"}

\* the loaders a run is started with: kind, version, extension as passed
LoaderConfigs ==
  { [kind |-> "binary", version |-> <<1, 3>>, extension |-> ""],
    [kind |-> "binary", version |-> <<1, 6>>, extension |-> ""],
    [kind |-> "las", version |-> <<1, 6>>, extension |-> "LAZ"] }

\* the loaders of the version-gating runs: every kind with versions on both
\* sides of 1.4 and of 1.5
Versions == {<<1, 3>>, <<1, 4>>, <<1, 5>>, <<1, 6>>, <<2, 0>>}

VersionConfigs ==
  {[kind |-> "binary", version |-> v, extension |-> ""] : v \in Versions}
    \cup {[kind |-> "las", version |-> v, extension |-> e] :
            v \in Versions, e \in {"LAZ", "las"}}

\* The files on the server do not change during a run: a node's payload has
\* one byte length, a LAS file one number of readData() batches, a batch one
\* point count, and a decoder's result (tightBoundingBox, mean) is a function
\* of the bytes it was sent.
BatchesOf(n) == IF n = "r" THEN 2 ELSE 1

ByteLengthOf(n) == IF n = "r" THEN 2 * SchemaByteSize ELSE SchemaByteSize

CountOf(n, batch) == IF n = "r" THEN batch + 1 ELSE batch

DecodedOf(n, batch) ==
  IF n = "r"
    THEN [min |-> <<1, 1, 1>>, max |-> <<3 + batch, 4, 5>>, mean |-> <<2, 2, 3>>]
    ELSE [min |-> <<0, 0, 0>>, max |-> <<2, 2, 1 + batch>>, mean |-> <<1, 1, 1>>]

VARIABLES
  loader,    \* the loader object: kind, version, extension, disposed, workers
  wk,        \* every Worker ever constructed, by id: its state and onmessage
  jobs,      \* messages posted to workers whose result has not come back
  node,      \* the PointCloudOctreeGeometryNode fields the loaders write
  tree,      \* node.pcoGeometry: numNodesLoading, needsUpdate
  chains,    \* the pending promise chains of load() / parse(), a multiset
  nloads,    \* how many load() calls went past the early return so far
  skipped,   \* whether some load() call has returned Promise.resolve() early
  engine,    \* the streaming engine's budget walk: pointBudget, the visible
             \* candidates' numPoints in priority order, the admitted set
  viewer     \* the example application: main.ts's loaded flag, the Viewer's
             \* pointClouds, pointCloudGroups, scene and prevTime, the
             \* viewer.load() promises still pending, the point clouds
             \* disposed, and the calls the last loop() made

vars == <<loader, wk, jobs, node, tree, chains, nloads, skipped, engine, viewer>>

\* ------------------------------------------------------------ Version
\* Version.equalOrHigher(v) and Version.upTo(v) on <<major, minor>>
newerThan(a, b) == a[1] > b[1] \/ (a[1] = b[1] /\ a[2] > b[2])

equalOrHigher(a, b) == a[1] > b[1] \/ (a[1] = b[1] /\ a[2] >= b[2])

upTo(a, b) == ~newerThan(a, b)

\* String.prototype.toLowerCase on the extensions the model uses
toLowerCase(s) ==
  CASE s = "LAZ" -> "laz"
    [] s = "LAS" -> "las"
    [] OTHER -> s

\* ------------------------------------------------------------ values
NoVec == <<>>
NoBox == [min |-> <<>>, max |-> <<>>]
NoGeometry == [attrs |-> {}, normal |-> <<"none", 0>>, from |-> <<"none", 0>>]
NoHandler == [node |-> "none", npts |-> 0, batch |-> 0]

InitNode ==
  [loaded |-> FALSE, loading |-> FALSE, numPoints |-> 0, geometry |-> NoGeometry,
   mean |-> NoVec, tightBoundingBox |-> NoBox]

\* the engine before any traversal pass, with nothing visible
IdleEngine == [pointBudget |-> 0, cands |-> <<>>, resident |-> {}]

\* a loader constructed from one of the configurations C, nothing loaded
InitFrom(C) ==
  /\ \E c \in C :
       loader = [kind |-> c.kind, version |-> c.version,
                 extension |-> toLowerCase(c.extension),
                 disposed |-> FALSE, workers |-> <<>>]
  /\ wk = <<>>
  /\ jobs = {}
  /\ node = [n \in Nodes |-> InitNode]
  /\ tree = [numNodesLoading |-> 0, needsUpdate |-> FALSE]
  /\ chains = EmptyBag
  /\ nloads = 0
  /\ skipped = FALSE

\* the example application once main.ts has run: the Viewer is constructed
\* and initialized (requestAnimationFrame(this.loop) is queued, prevTime is
\* undefined, here 0), and loadBtn.click() has set loaded and started the
\* first viewer.load()
StartedViewer ==
  [loaded |-> TRUE, pending |-> {1}, started |-> 1,
   pointClouds |-> <<>>, pointCloudGroups |-> <<>>, scene |-> {},
   disposed |-> {}, prevTime |-> 0, calls |-> <<>>]

Init ==
  /\ InitFrom(LoaderConfigs)
  /\ engine = IdleEngine
  /\ viewer = StartedViewer

\* ------------------------------------------------------------ worker pool
\* getWorker(): pop the free list, or construct a Worker when it is empty
getWorker_peek ==
  IF Len(loader.workers) > 0
    THEN [worker |-> loader.workers[Len(loader.workers)],
          workers |-> loader.workers, fresh |-> FALSE]
    ELSE [worker |-> Len(wk) + 1, workers |-> loader.workers, fresh |-> TRUE]

getWorker_alwaysNew ==
  [worker |-> Len(wk) + 1, workers |-> loader.workers, fresh |-> TRUE]

getWorker ==
  IF Len(loader.workers) > 0
    THEN [worker |-> loader.workers[Len(loader.workers)],
          workers |-> SubSeq(loader.workers, 1, Len(loader.workers) - 1),
          fresh |-> FALSE]
    ELSE [worker |-> Len(wk) + 1, workers |-> loader.workers, fresh |-> TRUE]

\* releaseWorker(worker)
releaseWorker_twice(ws, w) == Append(Append(ws, w), w)

releaseWorker(ws, w) == Append(ws, w)

\* worker.onmessage = handler, on the worker getWorker() returned
WithHandler(g, h) ==
  IF g.fresh
    THEN Append(wk, [st |-> "live", h |-> h])
    ELSE [wk EXCEPT ![g.worker].h = h]

\* ------------------------------------------------------------ load()
\* getNodeUrl(node): node.getUrl() is the node's name; the url is the pair
\* <<node.getUrl(), appended suffix>> ("" when nothing is appended)
BinaryGetNodeUrl_always(n) == <<n, ".bin">>

BinaryGetNodeUrl(n) ==
  IF equalOrHigher(loader.version, <<1, 4>>) THEN <<n, ".bin">> ELSE <<n, "">>

LasGetNodeUrl(n) ==
  IF equalOrHigher(loader.version, <<1, 4>>)
    THEN <<n, ".", loader.extension>>
    ELSE <<n, "">>

getNodeUrl(n) == IF loader.kind = "binary" THEN BinaryGetNodeUrl(n) ELSE LasGetNodeUrl(n)

\* a pending chain: whose node, who called load() (the engine or another
\* caller), the url fetched, the call it waits for, the state of the promise
\* load() returned, and the LASFile's isOpen, close() calls and batches read
NewChain(n, eng) ==
  [node |-> n, eng |-> eng, url |-> getNodeUrl(n), pc |-> "fetch",
   promise |-> "pending", isOpen |-> FALSE, closeCalls |-> 0, nread |-> 0]

Pending == BagToSet(chains)

\* chain c takes a step to c2 / runs its last reaction
Step(c, c2) == chains' = (chains (-) SetToBag({c})) (+) SetToBag({c2})

End(c) == chains' = chains (-) SetToBag({c})

\* the condition of load()'s early return
LoadReturnsEarly_ignoresLoaded(n) == loader.disposed

LoadReturnsEarly_ignoresDisposed(n) == node[n].loaded

LoadReturnsEarly_consultsLoading(n) ==
  node[n].loaded \/ loader.disposed \/ node[n].loading

LoadReturnsEarly(n) == node[n].loaded \/ loader.disposed

\* load(node): Promise.resolve() at once, or the chain
\* getNodeUrl -> xhrRequest -> arrayBuffer -> parse (the url reaction is a
\* microtask of the call, so the chain starts out waiting for xhrRequest)
load(n, eng) ==
  IF LoadReturnsEarly(n)
    THEN /\ skipped' = TRUE
         /\ UNCHANGED <<chains, nloads>>
    ELSE /\ nloads < MaxLoads
         /\ chains' = chains (+) SetToBag({NewChain(n, eng)})
         /\ nloads' = nloads + 1
         /\ skipped' = skipped

\* a caller other than the engine calls the loader's public load() on a node
\* that is already loaded, or after dispose()
Recall(n) ==
  /\ node[n].loaded \/ loader.disposed
  /\ load(n, FALSE)
  /\ UNCHANGED <<loader, wk, jobs, node, tree>>

\* a caller other than the engine calls load() on a node that is not loaded,
\* whether or not a load of it is already in flight
LoadAgain(n) ==
  /\ ~node[n].loaded
  /\ ~loader.disposed
  /\ load(n, FALSE)
  /\ UNCHANGED <<loader, wk, jobs, node, tree>>

\* ------------------------------------------------------------ engine
\* the streaming engine selects a node for load: loading = true, one more
\* in-flight load, then loader.load(node)
NodeLoad(n) ==
  /\ ~node[n].loaded
  /\ ~node[n].loading
  /\ ~loader.disposed
  /\ node' = [node EXCEPT ![n].loading = TRUE]
  /\ tree' = [tree EXCEPT !.numNodesLoading = @ + 1]
  /\ load(n, TRUE)
  /\ UNCHANGED <<loader, wk, jobs>>

\* the engine's reaction to a rejected load() promise: the node is not left
\* in loading
EngineCatch(c) ==
  IF c.eng
    THEN /\ node' = [node EXCEPT ![c.node].loading = FALSE]
         /\ tree' = [tree EXCEPT !.numNodesLoading = @ - 1]
    ELSE UNCHANGED <<node, tree>>

\* eviction: the node releases its buffers and returns to loaded = false
Evict(n) ==
  /\ node[n].loaded
  /\ node' = [node EXCEPT ![n].loaded = FALSE, ![n].geometry = NoGeometry]
  /\ UNCHANGED <<loader, wk, jobs, tree, chains, nloads, skipped>>

\* ------------------------------------------------------------ fetch
\* xhrRequest() resolves: res.arrayBuffer() is called
FetchResolve(c) ==
  /\ c.pc = "fetch"
  /\ Step(c, [c EXCEPT !.pc = "arrayBuffer"])
  /\ UNCHANGED <<loader, wk, jobs, node, tree, nloads, skipped>>

\* xhrRequest() or res.arrayBuffer() rejects: load()'s promise rejects
LoadReject(c) ==
  /\ c.pc \in {"fetch", "arrayBuffer"}
  /\ End(c)
  /\ EngineCatch(c)
  /\ UNCHANGED <<loader, wk, jobs, nloads, skipped>>

\* ------------------------------------------------------------ parse()
\* worker.postMessage(message) on the worker getWorker() returned, with the
\* onmessage closure h installed first; the message carries the bytes of
\* batch h.batch of node h.node
Dispatch(g, h) ==
  /\ loader' = [loader EXCEPT !.workers = g.workers]
  /\ wk' = WithHandler(g, h)
  /\ jobs' = jobs \cup {[w |-> g.worker, node |-> h.node, batch |-> h.batch]}

\* BinaryLoader.parse(node, buffer); len is buffer.byteLength (the model's
\* byte lengths are multiples of the schema's byte size, so / is exact).
\* parse returns, load()'s promise resolves and the chain is over.
BinaryParse_ignoresVersion(c, len) ==
  LET numPoints == len \div SchemaByteSize
  IN /\ End(c)
     /\ IF loader.disposed
          THEN UNCHANGED <<loader, wk, jobs, node>>
          ELSE /\ Dispatch(getWorker, [node |-> c.node, npts |-> numPoints, batch |-> 1])
               /\ node' = [node EXCEPT ![c.node].numPoints = numPoints]

BinaryParse_neverAssigns(c, len) ==
  LET numPoints == len \div SchemaByteSize
  IN /\ End(c)
     /\ IF loader.disposed
          THEN UNCHANGED <<loader, wk, jobs, node>>
          ELSE /\ Dispatch(getWorker, [node |-> c.node, npts |-> numPoints, batch |-> 1])
               /\ node' = node

BinaryParse(c, len) ==
  LET numPoints == len \div SchemaByteSize
  IN /\ End(c)
     /\ IF loader.disposed
          THEN UNCHANGED <<loader, wk, jobs, node>>
          ELSE /\ Dispatch(getWorker, [node |-> c.node, npts |-> numPoints, batch |-> 1])
               /\ node' = IF upTo(loader.version, <<1, 5>>)
                            THEN [node EXCEPT ![c.node].numPoints = numPoints]
                            ELSE node

\* LasLazLoader.parse(node, buffer): returns at once; the LASFile chain it
\* starts is not returned, so load()'s promise resolves here
LasParse_returnsChain(c) ==
  /\ IF loader.disposed
       THEN End(c)
       ELSE Step(c, [c EXCEPT !.pc = "setLoader"])
  /\ UNCHANGED <<loader, wk, jobs, node>>

LasParse(c) ==
  /\ IF loader.disposed
       THEN End(c)
       ELSE Step(c, [c EXCEPT !.pc = "setLoader", !.promise = "resolved"])
  /\ UNCHANGED <<loader, wk, jobs, node>>

\* res.arrayBuffer() resolves: .then(buffer => this.parse(node, buffer))
ArrayBufferResolve(c) ==
  /\ c.pc = "arrayBuffer"
  /\ IF loader.kind = "binary"
       THEN BinaryParse(c, ByteLengthOf(c.node))
       ELSE LasParse(c)
  /\ UNCHANGED <<tree, nloads, skipped>>

\* ------------------------------------------------------------ LAS pipeline
\* lf.setLoader() resolves: lf.open() is called
SetLoaderResolve(c) ==
  /\ c.pc = "setLoader"
  /\ Step(c, [c EXCEPT !.pc = "open"])
  /\ UNCHANGED <<loader, wk, jobs, node, tree, nloads, skipped>>

\* lf.open() resolves: lf.isOpen = true, lf.getHeader() is called
OpenResolve(c) ==
  /\ c.pc = "open"
  /\ Step(c, [c EXCEPT !.pc = "getHeader", !.isOpen = TRUE])
  /\ UNCHANGED <<loader, wk, jobs, node, tree, nloads, skipped>>

\* lf.getHeader() resolves: reader() calls lf.readData()
GetHeaderResolve(c) ==
  /\ c.pc = "getHeader"
  /\ Step(c, [c EXCEPT !.pc = "readData"])
  /\ UNCHANGED <<loader, wk, jobs, node, tree, nloads, skipped>>

\* pushBatch(node, lasBuffer) for the batch just read: no look at
\* this.disposed
pushBatch(c) ==
  Dispatch(getWorker,
           [node |-> c.node, npts |-> CountOf(c.node, c.nread + 1),
            batch |-> c.nread + 1])

\* lf.readData() resolves with data.count, data.hasMoreData: the batch is
\* pushed, then reader() again, or lf.close() is called
ReadDataResolve(c) ==
  /\ c.pc = "readData"
  /\ LET hasMoreData == c.nread + 1 < BatchesOf(c.node)
     IN /\ pushBatch(c)
        /\ Step(c, IF hasMoreData
                     THEN [c EXCEPT !.nread = @ + 1]
                     ELSE [c EXCEPT !.nread = @ + 1, !.pc = "close",
                                    !.closeCalls = @ + 1])
  /\ UNCHANGED <<node, tree, nloads, skipped>>

\* setLoader, open, getHeader or readData rejects: the only rejection
\* handler on that path is the outer .catch, which logs
StageReject_rollsBack(c) ==
  /\ c.pc \in {"setLoader", "open", "getHeader", "readData"}
  /\ End(c)
  /\ EngineCatch(c)
  /\ UNCHANGED <<loader, wk, jobs, nloads, skipped>>

StageReject(c) ==
  /\ c.pc \in {"setLoader", "open", "getHeader", "readData"}
  /\ End(c)
  /\ UNCHANGED <<loader, wk, jobs, node, tree, nloads, skipped>>

\* lf.close() resolves on the success path: lf.isOpen = false
CloseResolve(c) ==
  /\ c.pc = "close"
  /\ End(c)
  /\ UNCHANGED <<loader, wk, jobs, node, tree, nloads, skipped>>

\* lf.close() rejects: the inner .catch closes again if lf.isOpen, else
\* rethrows to the outer .catch
CloseReject(c) ==
  /\ c.pc = "close"
  /\ IF c.isOpen
       THEN Step(c, [c EXCEPT !.pc = "close2", !.closeCalls = @ + 1])
       ELSE End(c)
  /\ UNCHANGED <<loader, wk, jobs, node, tree, nloads, skipped>>

\* the second close() settles: lf.isOpen = false if it resolved, and either
\* way an error reaches the outer .catch, which logs
Close2Settle(c) ==
  /\ c.pc = "close2"
  /\ End(c)
  /\ UNCHANGED <<loader, wk, jobs, node, tree, nloads, skipped>>

\* ------------------------------------------------------------ onmessage
VecSub(a, b) == <<a[1] - b[1], a[2] - b[2], a[3] - b[3]>>

\* BinaryLoader.getTightBoundingBox({min, max})
getTightBoundingBox(d) == [min |-> <<0, 0, 0>>, max |-> VecSub(d.max, d.min)]

\* the attribute names addBufferAttributes() adds for the tree's schema
BinaryAttrs == {"position", "color"}

\* the attributes LasLazLoader's onmessage adds
LasAttrs ==
  {"position", "color", "intensity", "classification", "returnNumber",
   "numberOfReturns", "pointSourceID", "indices"}

\* BinaryLoader.addNormalAttribute(geometry, numPoints)
addNormalAttribute(geo, numPoints) ==
  IF "normal" \in geo.attrs
    THEN geo
    ELSE [geo EXCEPT !.attrs = @ \cup {"normal"}, !.normal = <<"zeros", numPoints * 3>>]

\* the node after BinaryLoader's onmessage body ran for closure h on the
\* result of job j (node.geometry || new BufferGeometry(): NoGeometry is both)
BinaryLoaded_keepsLoading(nd, h, j) ==
  [nd EXCEPT
     !.geometry = addNormalAttribute(
                    [nd.geometry EXCEPT !.attrs = @ \cup BinaryAttrs \cup {"indices"},
                                        !.from = <<j.node, j.batch>>], h.npts),
     !.mean = DecodedOf(j.node, j.batch).mean,
     !.tightBoundingBox = getTightBoundingBox(DecodedOf(j.node, j.batch)),
     !.loaded = TRUE]

BinaryLoaded(nd, h, j) ==
  [nd EXCEPT
     !.geometry = addNormalAttribute(
                    [nd.geometry EXCEPT !.attrs = @ \cup BinaryAttrs \cup {"indices"},
                                        !.from = <<j.node, j.batch>>], h.npts),
     !.mean = DecodedOf(j.node, j.batch).mean,
     !.tightBoundingBox = getTightBoundingBox(DecodedOf(j.node, j.batch)),
     !.loaded = TRUE,
     !.loading = FALSE]

\* the node after LasLazLoader's onmessage body ran
LasLoaded_keepsFirst(nd, h, j) ==
  IF nd.loaded
    THEN nd
    ELSE [nd EXCEPT
            !.geometry = [attrs |-> LasAttrs, normal |-> <<"none", 0>>,
                          from |-> <<j.node, j.batch>>],
            !.tightBoundingBox = [min |-> DecodedOf(j.node, j.batch).min,
                                  max |-> DecodedOf(j.node, j.batch).max],
            !.numPoints = h.npts,
            !.loaded = TRUE,
            !.loading = FALSE,
            !.mean = DecodedOf(j.node, j.batch).mean]

LasLoaded(nd, h, j) ==
  [nd EXCEPT
     !.geometry = [attrs |-> LasAttrs, normal |-> <<"none", 0>>,
                   from |-> <<j.node, j.batch>>],
     !.tightBoundingBox = [min |-> DecodedOf(j.node, j.batch).min,
                           max |-> DecodedOf(j.node, j.batch).max],
     !.numPoints = h.npts,
     !.loaded = TRUE,
     !.loading = FALSE,
     !.mean = DecodedOf(j.node, j.batch).mean]

\* BinaryLoader: worker.onmessage of the worker that answers job j
BinaryOnMessage_noRelease(j) ==
  LET h == wk[j.w].h
  IN IF loader.disposed
       THEN UNCHANGED <<loader, node, tree>>
       ELSE /\ node' = [node EXCEPT ![h.node] = BinaryLoaded(@, h, j)]
            /\ tree' = [numNodesLoading |-> tree.numNodesLoading - 1,
                        needsUpdate |-> TRUE]
            /\ loader' = loader

BinaryOnMessage(j) ==
  LET h == wk[j.w].h
  IN IF loader.disposed
       THEN UNCHANGED <<loader, node, tree>>
       ELSE /\ node' = [node EXCEPT ![h.node] = BinaryLoaded(@, h, j)]
            /\ tree' = [numNodesLoading |-> tree.numNodesLoading - 1,
                        needsUpdate |-> TRUE]
            /\ loader' = [loader EXCEPT !.workers = releaseWorker(@, j.w)]

\* LasLazLoader: worker.onmessage of the worker that answers job j
LasOnMessage(j) ==
  LET h == wk[j.w].h
  IN /\ node' = [node EXCEPT ![h.node] = LasLoaded(@, h, j)]
     /\ tree' = [tree EXCEPT !.numNodesLoading = @ - 1]
     /\ loader' = [loader EXCEPT !.workers = releaseWorker(@, j.w)]

\* node and tree fields after the onmessage of job j's worker has run on
\* the fields s (the handlers' writes, as a function of the fields before)
Delivered(s, j) ==
  LET h == wk[j.w].h
  IN IF loader.kind = "binary"
       THEN IF loader.disposed
              THEN s
              ELSE [node |-> [s.node EXCEPT ![h.node] = BinaryLoaded(@, h, j)],
                    tree |-> [numNodesLoading |-> s.tree.numNodesLoading - 1,
                              needsUpdate |-> TRUE]]
       ELSE [node |-> [s.node EXCEPT ![h.node] = LasLoaded(@, h, j)],
             tree |-> [s.tree EXCEPT !.numNodesLoading = @ - 1]]

\* The worker table once job j is answered.  An onmessage closure is read only
\* when a message arrives, and every postMessage is preceded by an assignment
\* to onmessage, so the closure of a worker with no message in flight is never
\* read again: the table forgets it.
Settled(j) ==
  IF \E k \in jobs : k # j /\ k.w = j.w
    THEN wk
    ELSE [wk EXCEPT ![j.w].h = NoHandler]

\* a worker posts the result of job j: the worker's current onmessage runs
WorkerMessage(j) ==
  /\ wk[j.w].st = "live"
  /\ IF loader.kind = "binary" THEN BinaryOnMessage(j) ELSE LasOnMessage(j)
  /\ jobs' = jobs \ {j}
  /\ wk' = Settled(j)
  /\ UNCHANGED <<chains, nloads, skipped>>

\* ------------------------------------------------------------ dispose()
InFreeList(w) == \E i \in 1..Len(loader.workers) : loader.workers[i] = w

Dispose ==
  /\ wk' = [w \in 1..Len(wk) |->
              IF InFreeList(w) THEN [wk[w] EXCEPT !.st = "terminated"] ELSE wk[w]]
  /\ loader' = [loader EXCEPT !.workers = <<>>, !.disposed = TRUE]
  /\ UNCHANGED <<jobs, node, tree, chains, nloads, skipped>>

\* ------------------------------------------------------------ specifications
\* the engine is the only caller of load()
Next ==
  \/ \E n \in Nodes : NodeLoad(n) /\ UNCHANGED <<engine, viewer>>
  \/ \E n \in Nodes : Evict(n) /\ UNCHANGED <<engine, viewer>>
  \/ \E c \in Pending : FetchResolve(c) /\ UNCHANGED <<engine, viewer>>
  \/ \E c \in Pending : LoadReject(c) /\ UNCHANGED <<engine, viewer>>
  \/ \E c \in Pending : ArrayBufferResolve(c) /\ UNCHANGED <<engine, viewer>>
  \/ \E c \in Pending : SetLoaderResolve(c) /\ UNCHANGED <<engine, viewer>>
  \/ \E c \in Pending : OpenResolve(c) /\ UNCHANGED <<engine, viewer>>
  \/ \E c \in Pending : GetHeaderResolve(c) /\ UNCHANGED <<engine, viewer>>
  \/ \E c \in Pending : ReadDataResolve(c) /\ UNCHANGED <<engine, viewer>>
  \/ \E c \in Pending : StageReject(c) /\ UNCHANGED <<engine, viewer>>
  \/ \E c \in Pending : CloseResolve(c) /\ UNCHANGED <<engine, viewer>>
  \/ \E c \in Pending : CloseReject(c) /\ UNCHANGED <<engine, viewer>>
  \/ \E c \in Pending : Close2Settle(c) /\ UNCHANGED <<engine, viewer>>
  \/ \E j \in jobs : WorkerMessage(j) /\ UNCHANGED <<engine, viewer>>
  \/ Dispose /\ UNCHANGED <<engine, viewer>>

Spec == Init /\ [][Next]_vars

\* load() is also called again on loaded nodes and on a disposed loader
NextRecall == Next \/ \E n \in Nodes : Recall(n) /\ UNCHANGED <<engine, viewer>>

SpecRecall == Init /\ [][NextRecall]_vars

\* ------------------------------------------------------------ version gating
\* the fetch and the binary decode for every loader version; what a LAS
\* chain does behind parse() is not part of these runs
NextVersions ==
  \/ \E n \in Nodes : NodeLoad(n) /\ UNCHANGED <<engine, viewer>>
  \/ \E n \in Nodes : Evict(n) /\ UNCHANGED <<engine, viewer>>
  \/ \E c \in Pending : FetchResolve(c) /\ UNCHANGED <<engine, viewer>>
  \/ \E c \in Pending : LoadReject(c) /\ UNCHANGED <<engine, viewer>>
  \/ \E c \in Pending : ArrayBufferResolve(c) /\ UNCHANGED <<engine, viewer>>
  \/ \E j \in jobs : WorkerMessage(j) /\ UNCHANGED <<engine, viewer>>
  \/ Dispose /\ UNCHANGED <<engine, viewer>>

SpecVersions ==
  /\ InitFrom(VersionConfigs) /\ engine = IdleEngine /\ viewer = StartedViewer
  /\ [][NextVersions]_vars

\* load() is also called on nodes that are not loaded, by other callers;
\* what a LAS chain does behind parse() is not part of these runs either
NextOverlap ==
  NextVersions \/ \E n \in Nodes : LoadAgain(n) /\ UNCHANGED <<engine, viewer>>

SpecOverlap == Init /\ [][NextOverlap]_vars

\* ------------------------------------------------------------ progress
\* a BinaryLoader whose fetches succeed, whose workers answer and which is
\* never disposed.  Each pending callback of a node is run eventually: the
\* event loop runs every task that is queued.
NextLive ==
  \/ \E n \in Nodes : NodeLoad(n) /\ UNCHANGED <<engine, viewer>>
  \/ \E n \in Nodes : Evict(n) /\ UNCHANGED <<engine, viewer>>
  \/ \E c \in Pending : FetchResolve(c) /\ UNCHANGED <<engine, viewer>>
  \/ \E c \in Pending : ArrayBufferResolve(c) /\ UNCHANGED <<engine, viewer>>
  \/ \E j \in jobs : WorkerMessage(j) /\ UNCHANGED <<engine, viewer>>

Fairness ==
  \A n \in Nodes :
    /\ WF_vars(\E c \in Pending : c.node = n /\ FetchResolve(c) /\ UNCHANGED <<engine, viewer>>)
    /\ WF_vars(\E c \in Pending :
                 c.node = n /\ ArrayBufferResolve(c) /\ UNCHANGED <<engine, viewer>>)
    /\ WF_vars(\E j \in jobs : j.node = n /\ WorkerMessage(j) /\ UNCHANGED <<engine, viewer>>)

SpecLive ==
  /\ InitFrom({c \in VersionConfigs : c.kind = "binary"})
  /\ engine = IdleEngine /\ viewer = StartedViewer
  /\ [][NextLive]_vars
  /\ Fairness

\* ------------------------------------------------------------ budget walk
\* The traversal pass of the streaming engine (Potree.updatePointClouds,
\* called by Viewer.update once per frame).  The candidates are the visible
\* nodes in descending priority; cs[i] is the numPoints of the i-th.
\* The walk visits them in that order, keeps a running total and stops
\* admitting at the first node that would take the total over the budget.
RECURSIVE budgetWalk_skip(_, _, _, _)
budgetWalk_skip(cs, B, i, total) ==
  IF i > Len(cs)
    THEN {}
    ELSE IF total + cs[i] > B
           THEN budgetWalk_skip(cs, B, i + 1, total)
           ELSE {i} \cup budgetWalk_skip(cs, B, i + 1, total + cs[i])

RECURSIVE budgetWalk(_, _, _, _)
budgetWalk(cs, B, i, total) ==
  IF i > Len(cs)
    THEN {}
    ELSE IF total + cs[i] > B
           THEN {}
           ELSE {i} \cup budgetWalk(cs, B, i + 1, total + cs[i])

\* the candidate lists and budgets of the budget runs
CandidateLists ==
  UNION {[1..k -> 1..MaxPoints] : k \in 0..MaxCands}

\* one full traversal pass with the budget that is configured now
UpdatePointClouds ==
  /\ engine' = [engine EXCEPT
                  !.resident = budgetWalk(engine.cands, engine.pointBudget, 1, 0)]
  /\ UNCHANGED <<loader, wk, jobs, node, tree, chains, nloads, skipped, viewer>>

\* the caller sets the point budget between two passes
SetPointBudget(b) ==
  /\ b # engine.pointBudget
  /\ engine' = [engine EXCEPT !.pointBudget = b]
  /\ UNCHANGED <<loader, wk, jobs, node, tree, chains, nloads, skipped, viewer>>

InitBudget ==
  /\ InitFrom(LoaderConfigs)
  /\ \E cs \in CandidateLists, b \in 0..MaxBudget :
       engine = [pointBudget |-> b, cands |-> cs, resident |-> {}]
  /\ viewer = StartedViewer

NextBudget ==
  \/ UpdatePointClouds
  \/ \E b \in 0..MaxBudget : SetPointBudget(b)

SpecBudget == InitBudget /\ [][NextBudget]_vars

\* ------------------------------------------------------------ example viewer
\* The example application (example/main.ts, example/viewer.ts).  A point
\* cloud and its group are named by the number of the viewer.load() call
\* that produced them; the time passed to loop() is the frame's number.

\* the visible candidates and the budget of the viewer's runs
ScenarioCands == <<8, 6, 4, 3, 2>>

ScenarioBudget == 20

\* potree.updatePointClouds(this.pointClouds, camera, renderer): a traversal
\* pass over the point clouds handed in
updatePointClouds(pointClouds, e) ==
  IF Len(pointClouds) = 0
    THEN e
    ELSE [e EXCEPT !.resident = budgetWalk(e.cands, e.pointBudget, 1, 0)]

\* loadBtn's click handler
LoadClick ==
  /\ IF viewer.loaded
       THEN UNCHANGED viewer
       ELSE /\ viewer.started < MaxClicks
            /\ viewer' = [viewer EXCEPT !.loaded = TRUE,
                                        !.started = @ + 1,
                                        !.pending = @ \cup {viewer.started + 1}]
  /\ UNCHANGED <<loader, wk, jobs, node, tree, chains, nloads, skipped, engine>>

\* Viewer.unload(): dispose every point cloud of the list, take every group
\* of pointCloudGroups out of the scene, empty the list
unload(v) ==
  [v EXCEPT !.disposed = @ \cup {v.pointClouds[i] : i \in 1..Len(v.pointClouds)},
            !.scene = @ \ {v.pointCloudGroups[i] : i \in 1..Len(v.pointCloudGroups)},
            !.pointClouds = <<>>]

\* unloadBtn's click handler
UnloadClick ==
  /\ IF ~viewer.loaded
       THEN UNCHANGED viewer
       ELSE viewer' = [unload(viewer) EXCEPT !.loaded = FALSE]
  /\ UNCHANGED <<loader, wk, jobs, node, tree, chains, nloads, skipped, engine>>

\* Viewer.add(pco, group)
add(v, pco) ==
  [v EXCEPT !.scene = @ \cup {pco},
            !.pointCloudGroups = Append(@, pco),
            !.pointClouds = Append(@, pco)]

\* the promise of viewer.load() call i resolves: .then(pco => ... viewer.add)
ViewerLoadResolve(i) ==
  /\ i \in viewer.pending
  /\ viewer' = [add(viewer, i) EXCEPT !.pending = @ \ {i}]
  /\ UNCHANGED <<loader, wk, jobs, node, tree, chains, nloads, skipped, engine>>

\* the promise of viewer.load() call i rejects: .catch(err => console.error)
ViewerLoadReject(i) ==
  /\ i \in viewer.pending
  /\ viewer' = [viewer EXCEPT !.pending = @ \ {i}]
  /\ UNCHANGED <<loader, wk, jobs, node, tree, chains, nloads, skipped, engine>>

\* Viewer.loop(time): the calls it makes after cameraControls.update(), and
\* the engine after the traversal passes among them
loop(time) ==
  /\ time = viewer.prevTime + 1
  /\ time <= MaxFrames
  /\ IF viewer.prevTime = 0
       THEN /\ viewer' = [viewer EXCEPT !.prevTime = time, !.calls = <<>>]
            /\ engine' = engine
       ELSE /\ viewer' = [viewer EXCEPT
                            !.prevTime = time,
                            !.calls = << "updatePointClouds(orthoCamera)", "render1",
                                         "updatePointClouds(camera)", "render2",
                                         "render3" >>]
            /\ engine' = updatePointClouds(
                            viewer.pointClouds,
                            updatePointClouds(viewer.pointClouds, engine))
  /\ UNCHANGED <<loader, wk, jobs, node, tree, chains, nloads, skipped>>

InitViewer ==
  /\ InitFrom(LoaderConfigs)
  /\ engine = [pointBudget |-> ScenarioBudget, cands |-> ScenarioCands,
               resident |-> {}]
  /\ viewer = StartedViewer

NextViewer ==
  \/ LoadClick
  \/ UnloadClick
  \/ \E i \in 1..MaxClicks : ViewerLoadResolve(i)
  \/ \E i \in 1..MaxClicks : ViewerLoadReject(i)
  \/ \E time \in 1..MaxFrames : loop(time)

SpecViewer == InitViewer /\ [][NextViewer]_vars

\* ------------------------------------------------------------ claims

\* C1: once dispose() has been called on the loader, a decode completion
\* (worker.onmessage) that arrives afterwards leaves every node's fields and
\* the tree's numNodesLoading and needsUpdate as they were.
C1_CompletionAfterDisposeMutatesNothing ==
  [][\A j \in jobs :
       (loader.disposed /\ WorkerMessage(j)) => (node' = node /\ tree' = tree)]_vars

\* C2: in every state, no node has loaded = true and loading = true together.
C2_NeverLoadedAndLoading ==
  \A n \in Nodes : ~(node[n].loaded /\ node[n].loading)

\* a decode completion has made one node loaded while another is still loading
C2_Witness ==
  \E n, m \in Nodes : node[n].loaded /\ ~node[n].loading /\ node[m].loading

\* C3: load(node) on a node whose loaded flag is true returns the resolved
\* promise and starts no chain (no url, no fetch), takes no worker and changes
\* neither node nor tree nor loader state, each time it is called.
C3_LoadOfLoadedNodeIsNoOp ==
  [][\A n \in Nodes :
       (Recall(n) /\ node[n].loaded) =>
         /\ skipped'
         /\ chains' = chains /\ nloads' = nloads
         /\ wk' = wk /\ jobs' = jobs /\ loader' = loader
         /\ node' = node /\ tree' = tree]_vars

\* load() has returned early on a loader that was never disposed, so on a
\* loaded node
C3_Witness ==
  skipped /\ ~loader.disposed /\ \E n \in Nodes : node[n].loaded

\* C4: load(node) on a disposed loader returns the resolved promise for any
\* node, loaded or not, starts no fetch, takes or creates no worker and
\* leaves node and tree state unchanged.
C4_LoadAfterDisposeIsNoOp ==
  [][\A n \in Nodes :
       (Recall(n) /\ loader.disposed) =>
         /\ skipped'
         /\ chains' = chains /\ nloads' = nloads
         /\ wk' = wk /\ jobs' = jobs /\ loader.workers' = loader.workers
         /\ node' = node /\ tree' = tree]_vars

\* load() has returned early on a disposed loader although no node was ever
\* loaded (no load was ever started)
C4_Witness ==
  skipped /\ loader.disposed /\ nloads = 0 /\ \A n \in Nodes : ~node[n].loaded

\* C5: when a load fails on a loader that is not disposed (the fetch or
\* arrayBuffer() rejects, or a stage of the LAS decode rejects), the node ends
\* with loaded = false and loading = false.
C5_FailedLoadLeavesNodeIdle ==
  [][\A c \in Pending :
       ((LoadReject(c) \/ StageReject(c) \/ Close2Settle(c)) /\ ~loader.disposed)
         => (~node'[c.node].loaded /\ ~node'[c.node].loading)]_vars

\* C6: numNodesLoading always equals the number of nodes whose loading flag
\* is true (so it is never negative, and a load decrements it once).
C6_CounterCountsLoadingNodes ==
  tree.numNodesLoading = Cardinality({n \in Nodes : node[n].loading})

\* C7: a LAS/LAZ node read in k > 1 batches becomes loaded only by the decode
\* completion of its final batch.
C7_LoadedOnlyByFinalBatch ==
  [][\A n \in Nodes :
       (loader.kind = "las" /\ ~node[n].loaded /\ node'[n].loaded) =>
         \E j \in jobs \ jobs' : j.node = n /\ j.batch = BatchesOf(n)]_vars

\* C8: after dispose() no worker the loader created remains un-terminated,
\* the workers acquired for an in-flight decode included.
C8_DisposeTerminatesEveryWorker ==
  loader.disposed => \A w \in 1..Len(wk) : wk[w].st = "terminated"

\* C9: no worker is in the free list while its decode is in flight, no worker
\* is in the free list twice, no worker is acquired by two decodes at once,
\* and a worker enters the free list only in the step that delivers the
\* result of its decode.
C9_FreeListHoldsOnlyIdleWorkers ==
  /\ [](/\ \A i \in 1..Len(loader.workers) :
             \A j \in jobs : j.w # loader.workers[i]
        /\ \A i, k \in 1..Len(loader.workers) :
             loader.workers[i] = loader.workers[k] => i = k
        /\ \A j, k \in jobs : j.w = k.w => j = k)
  /\ [][\A w \in 1..Len(wk) :
          (~InFreeList(w) /\ InFreeList(w)') =>
            \E j \in jobs \ jobs' : j.w = w]_vars

\* a released worker sits in the free list while another decode is in flight
C9_Witness ==
  Len(loader.workers) > 0 /\ jobs # {}

\* C10: in LasLazLoader.parse, a file that was opened has had close() called
\* on it by the time the chain finishes, on the success path and when
\* getHeader, readData or close fails.
C10_OpenedFileIsClosed ==
  [][\A c \in Pending :
       ((StageReject(c) \/ CloseResolve(c) \/ Close2Settle(c)) /\ c.isOpen)
         => c.closeCalls >= 1]_vars

\* C11: when a stage of the LAS/LAZ pipeline fails, the promise that
\* LasLazLoader.load(node) returned is still unsettled, so that it can reject
\* with the original error (it has not resolved before the failure).
C11_StageFailureRejectsLoad ==
  [][\A c \in Pending :
       (StageReject(c) \/ CloseReject(c) \/ Close2Settle(c))
         => c.promise # "resolved"]_vars

\* C12: every decode completion on a loader that is not disposed which sets a
\* node's loaded flag sets the tree's needsUpdate flag in the same step.
C12_CompletionMarksTreeDirty ==
  [][\A j \in jobs :
       (WorkerMessage(j) /\ ~loader.disposed /\ node'[j.node].loaded)
         => tree'.needsUpdate]_vars

\* C16: a node that a decode completion has loaded has a tightBoundingBox
\* whose min is the origin and whose max is the decoder's max minus the
\* decoder's min, for the batch its geometry came from.
C16_TightBoundingBoxNormalised ==
  \A n \in Nodes :
    node[n].geometry.from # NoGeometry.from =>
      LET d == DecodedOf(node[n].geometry.from[1], node[n].geometry.from[2])
      IN /\ node[n].tightBoundingBox.min = <<0, 0, 0>>
         /\ node[n].tightBoundingBox.max =
              <<d.max[1] - d.min[1], d.max[2] - d.min[2], d.max[3] - d.min[3]>>

\* C17: whenever two decode completions are outstanding, delivering them in
\* one order leaves every node and the tree's counter as delivering them in
\* the other order does.
C17_CompletionOrderIrrelevant ==
  \A j, k \in jobs :
    LET s == [node |-> node, tree |-> tree]
    IN Delivered(Delivered(s, j), k) = Delivered(Delivered(s, k), j)

\* C20: the onmessage handler of a worker with a decode in flight is the one
\* installed for that decode, and the completion of a decode writes the node
\* whose bytes were posted and no other node.
C20_ResultGoesToItsNode ==
  /\ [](\A j \in jobs : wk[j.w].h.node = j.node /\ wk[j.w].h.batch = j.batch)
  /\ [][\A j \in jobs :
          WorkerMessage(j) => \A n \in Nodes \ {j.node} : node'[n] = node[n]]_vars

\* the only worker ever constructed has decoded one node and now has the
\* decode of another node in flight
C20_Witness ==
  /\ Len(wk) = 1
  /\ \E j \in jobs : \E n \in Nodes \ {j.node} : node[n].loaded

\* C13: the url a loader fetches for a node is node.getUrl() with '.bin'
\* (BinaryLoader) or '.' and the lower-case extension (LasLazLoader) appended
\* when the version is 1.4 or higher, and node.getUrl() alone below 1.4.
C13_UrlSuffixFromVersion14 ==
  \A c \in Pending :
    IF loader.version \in {<<1, 4>>, <<1, 5>>, <<1, 6>>, <<2, 0>>}
      THEN IF loader.kind = "binary"
             THEN c.url = <<c.node, ".bin">>
             ELSE /\ c.url = <<c.node, ".", loader.extension>>
                  /\ loader.extension \in {"las", "laz"}
      ELSE c.url = <<c.node, "">>

\* a BinaryLoader of version 1.4 exactly is fetching a url with the suffix
C13_Witness ==
  /\ loader.kind = "binary" /\ loader.version = <<1, 4>>
  /\ \E c \in Pending : c.url = <<c.node, ".bin">>

\* C14: when BinaryLoader.parse dispatches a decode, it sets node.numPoints
\* to byteLength / schemaByteSize in that step if the version is 1.5 or
\* lower, and leaves node.numPoints as it was if the version is above 1.5.
C14_ParseSetsNumPointsUpTo15 ==
  [][\A c \in Pending :
       (loader.kind = "binary" /\ ~loader.disposed /\ ArrayBufferResolve(c)) =>
         /\ \E j \in jobs' \ jobs : j.node = c.node
         /\ IF loader.version \in {<<1, 3>>, <<1, 4>>, <<1, 5>>}
              THEN node'[c.node].numPoints = ByteLengthOf(c.node) \div SchemaByteSize
              ELSE node'[c.node].numPoints = node[c.node].numPoints]_vars

\* parse of a version 1.5 loader has set numPoints of a node whose decode is
\* in flight
C14_Witness ==
  /\ loader.kind = "binary" /\ loader.version = <<1, 5>>
  /\ \E j \in jobs : /\ ~node[j.node].loaded
                     /\ node[j.node].numPoints = ByteLengthOf(j.node) \div SchemaByteSize

\* C15 as stated: with a BinaryLoader of version 1.3 a node whose bytes were
\* parsed has numPoints = byteLength / schemaByteSize, and with any version
\* 1.4 or higher the loader never assigns numPoints.
C15_CountFromBytesOnlyBelow14 ==
  loader.kind = "binary" =>
    \A n \in Nodes :
      IF loader.version = <<1, 3>>
        THEN ((\E j \in jobs : j.node = n) \/ node[n].loaded) =>
               node[n].numPoints = ByteLengthOf(n) \div SchemaByteSize
        ELSE node[n].numPoints = InitNode.numPoints

\* C15 amended: with a BinaryLoader of version 1.3, 1.4 or 1.5 a node whose
\* bytes were parsed has numPoints = byteLength / schemaByteSize, and with a
\* version above 1.5 the loader never assigns numPoints.
C15_CountFromBytesThrough15 ==
  loader.kind = "binary" =>
    \A n \in Nodes :
      IF loader.version \in {<<1, 3>>, <<1, 4>>, <<1, 5>>}
        THEN ((\E j \in jobs : j.node = n) \/ node[n].loaded) =>
               node[n].numPoints = ByteLengthOf(n) \div SchemaByteSize
        ELSE node[n].numPoints = InitNode.numPoints

\* a version 1.4 loader has loaded a node whose numPoints came from the bytes
C15_Witness ==
  /\ loader.kind = "binary" /\ loader.version = <<1, 4>>
  /\ \E n \in Nodes : /\ node[n].loaded
                      /\ node[n].numPoints = ByteLengthOf(n) \div SchemaByteSize

\* the point counts cs[i] summed over the indices in S
RECURSIVE SumOver(_, _)
SumOver(cs, S) ==
  IF S = {}
    THEN 0
    ELSE LET i == CHOOSE x \in S : TRUE
         IN cs[i] + SumOver(cs, S \ {i})

\* C18: a traversal pass with point budget B leaves resident a set whose
\* numPoints sum to at most B and which is the longest prefix of the
\* candidates in priority order that stays within B; setting the budget
\* changes nothing until the next pass, which uses the budget set by then.
C18_PassAdmitsLongestPrefix ==
  /\ [][UpdatePointClouds =>
          LET B == engine.pointBudget
              cs == engine.cands
              R == engine'.resident
          IN /\ SumOver(cs, R) <= B
             /\ \E k \in 0..Len(cs) :
                  /\ R = 1..k
                  /\ k < Len(cs) => SumOver(cs, 1..(k + 1)) > B]_vars
  /\ [][\A b \in 0..MaxBudget :
          SetPointBudget(b) => engine'.resident = engine.resident]_vars

\* a pass has admitted a prefix, rejected the next candidate, and left out a
\* later candidate that would still fit
C18_Witness ==
  LET cs == engine.cands
      R == engine.resident
  IN \E k \in 1..Len(cs) :
       /\ R = 1..k
       /\ k + 1 < Len(cs)
       /\ SumOver(cs, R) + cs[k + 1] > engine.pointBudget
       /\ \E i \in (k + 2)..Len(cs) : SumOver(cs, R) + cs[i] <= engine.pointBudget

\* C19: with a BinaryLoader that is never disposed, whose fetches succeed and
\* whose workers answer, a node that is loading is eventually loaded and not
\* loading, and a worker with a decode in flight is eventually in the free
\* list.
C19_BinaryLoadCompletes ==
  /\ \A n \in Nodes : node[n].loading ~> (node[n].loaded /\ ~node[n].loading)
  /\ \A w \in 1..(MaxLoads + 1) : (\E j \in jobs : j.w = w) ~> InFreeList(w)

\* a load has completed and its worker is back in the free list
C19_Witness ==
  /\ \E n \in Nodes : node[n].loaded /\ ~node[n].loading
  /\ jobs = {}
  /\ Len(loader.workers) = Len(wk) /\ Len(wk) > 0

\* C21: on a loader that has not been disposed, a worker is constructed only
\* in a step that finds the free list empty, and the workers constructed so
\* far are then as many as the decodes in flight; the free list loses a
\* worker only to a decode that acquires it or to dispose().
C21_PoolGrowsOnlyWhenEmpty ==
  /\ [][(~loader.disposed /\ Len(wk') > Len(wk)) =>
          /\ Len(loader.workers) = 0
          /\ Len(wk') = Len(wk) + 1
          /\ Len(wk') = Cardinality(jobs')]_vars
  /\ [][Len(loader.workers') < Len(loader.workers) =>
          \/ loader.disposed' /\ Len(loader.workers') = 0 /\ jobs' = jobs
          \/ /\ Len(loader.workers') = Len(loader.workers) - 1
             /\ \E j \in jobs' \ jobs : j.w = loader.workers[Len(loader.workers)]]_vars

\* two decodes are in flight at once on a pool that has grown to two workers
C21_Witness ==
  ~loader.disposed /\ Len(wk) = 2 /\ Cardinality(jobs) = 2

\* C22: a node that is loaded has a geometry with a 'normal' attribute.
C22_LoadedGeometryHasNormal ==
  \A n \in Nodes : node[n].loaded => "normal" \in node[n].geometry.attrs

\* C24: with a LasLazLoader, a failure of a stage of parse's chain changes no
\* node and no tree field (loading and numNodesLoading stay as the caller
\* set them), and load()'s promise was resolved before it.
C24_LasFailureOnlyLogged ==
  [][\A c \in Pending :
       (loader.kind = "las" /\ (StageReject(c) \/ CloseReject(c) \/ Close2Settle(c)))
         => /\ node' = node
            /\ tree' = tree
            /\ c.promise = "resolved"]_vars

\* a LAS decode chain has failed and gone, and its node is still loading
C24_Witness ==
  /\ loader.kind = "las" /\ ~loader.disposed
  /\ chains = EmptyBag /\ jobs = {}
  /\ \E n \in Nodes : node[n].loading /\ ~node[n].loaded
  /\ tree.numNodesLoading > 0

\* C25: once dispose() has been called the free list is empty in every later
\* state, and no later step posts a decode to a worker or constructs one.
C25_DisposeIsTerminalForPool ==
  /\ [](loader.disposed => Len(loader.workers) = 0)
  /\ [][loader.disposed => (jobs' \subseteq jobs /\ Len(wk') = Len(wk))]_vars

\* C26: the step that hands the fetched bytes to parse settles load()'s
\* promise and does not change the node's loaded flag; a chain still running
\* after that step has a resolved promise, and load()'s promise is rejected
\* only while the chain waits for the fetch or for arrayBuffer().
C26_LoadSettlesAtHandOff ==
  /\ [](\A c \in Pending :
          IF c.pc \in {"fetch", "arrayBuffer"}
            THEN c.promise = "pending"
            ELSE c.promise = "resolved")
  /\ [][\A c \in Pending :
          ArrayBufferResolve(c) => node'[c.node].loaded = node[c.node].loaded]_vars
  /\ [][\A c \in Pending : LoadReject(c) => c.promise = "pending"]_vars

\* load()'s promise has resolved while its node is not loaded
C26_Witness ==
  \E c \in Pending : c.promise = "resolved" /\ ~node[c.node].loaded

\* C28: with a LasLazLoader each decode completion sets the node's geometry
\* and numPoints to those of its own batch, whatever the node held before.
C28_LastCompletionWins ==
  [][\A j \in jobs :
       (loader.kind = "las" /\ WorkerMessage(j)) =>
         /\ node'[j.node].geometry.from = <<j.node, j.batch>>
         /\ node'[j.node].numPoints = CountOf(j.node, j.batch)]_vars

\* both batches of node r have been decoded, on two workers, and the node
\* holds the first batch: the second batch's decode completed first
C28_Witness ==
  /\ loader.kind = "las" /\ nloads = 1 /\ jobs = {} /\ Len(wk) = 2
  /\ \A c \in Pending : c.nread = BatchesOf("r")
  /\ node["r"].geometry.from = <<"r", 1>>
  /\ node["r"].numPoints = CountOf("r", 1)

\* C27: a load() call on a node that is not loaded, on a loader that is not
\* disposed, starts a chain of its own whether or not the node is loading,
\* and every decode completion that runs the handler's body takes one off
\* numNodesLoading.
C27_EveryLoadCallFetchesAndDecrements ==
  /\ [][\A n \in Nodes :
          LoadAgain(n) =>
            /\ nloads' = nloads + 1
            /\ chains' = chains (+) SetToBag({NewChain(n, FALSE)})
            /\ skipped' = skipped]_vars
  /\ [][\A j \in jobs :
          (WorkerMessage(j) /\ ~(loader.kind = "binary" /\ loader.disposed)) =>
            tree'.numNodesLoading = tree.numNodesLoading - 1]_vars

\* two overlapping loads of one node by a BinaryLoader have both completed:
\* the counter the engine raised once has been lowered twice
C27_Witness ==
  /\ loader.kind = "binary" /\ nloads = 2
  /\ tree.numNodesLoading = -1
  /\ \E n \in Nodes : node[n].loaded /\ \A m \in Nodes \ {n} : node[m] = InitNode

\* C23: every loop() after the first has made exactly one call of
\* potree.updatePointClouds.
C23_OneTraversalPerTick ==
  viewer.prevTime >= 2 =>
    Cardinality({i \in 1..Len(viewer.calls) :
                   viewer.calls[i] \in {"updatePointClouds(orthoCamera)",
                                        "updatePointClouds(camera)"}}) = 1

\* C29: the viewer never holds more than one point cloud, and when main.ts's
\* loaded flag is false and no viewer.load() is pending, the viewer's
\* pointClouds list is empty.
C29_AtMostOnePointCloud ==
  /\ Len(viewer.pointClouds) <= 1
  /\ (~viewer.loaded /\ viewer.pending = {}) => Len(viewer.pointClouds) = 0

====
